---- MODULE Spec2Model ----
(***************************************************************************)
(* Model of the Gmail agent workflow: the four nodes of src/graph/nodes.py *)
(* run by the graph that src/graph/build_graph.py assembles and that       *)
(* src/app/main.py invokes under a thread_id.                              *)
(*                                                                         *)
(* Strings that the code inspects character by character (raw_input) are   *)
(* sequences of one-character strings; every other string is a TLA+        *)
(* string.  Python's None / an absent key is None for plain values, NoRun  *)
(* for run_id and NoneStr for raw_input.                                   *)
(***************************************************************************)
EXTENDS Integers, Sequences, FiniteSets, TLC

\* ------------------------------------------------------------------------
\* Bounds
\* ------------------------------------------------------------------------

\* Total number of app.invoke calls in one behaviour, over all thread ids.
MaxInvokes == 2

\* ------------------------------------------------------------------------
\* Values
\* ------------------------------------------------------------------------

None == "None"
NoRun == 0
NoneStr == <<"<None>">>

\* thread ids a caller passes in config["configurable"]["thread_id"]
Keys == {"t1", "t2"}

\* "Process my inbox."  (nodes.py:57)
DefaultRawInput ==
  <<"P","r","o","c","e","s","s"," ","m","y"," ","i","n","b","o","x",".">>

\* "Process my inbox"
ProcessMyInbox ==
  <<"P","r","o","c","e","s","s"," ","m","y"," ","i","n","b","o","x">>

\* "Give me a daily summary"
GiveMeADailySummary ==
  <<"G","i","v","e"," ","m","e"," ","a"," ","d","a","i","l","y"," ",
    "s","u","m","m","a","r","y">>

\* "SUMMARY"
UpperSummary == <<"S","U","M","M","A","R","Y">>

\* instructions a caller hands to run_once / app.invoke
RawInputs == {NoneStr, <<>>, ProcessMyInbox, GiveMeADailySummary}

\* outputs of gmail_agent.invoke
AgentResults == {"r1", "r2"}

\* repr of the exception update_workflow_status raises
LedgerError == "LedgerError()"

\* ------------------------------------------------------------------------
\* str.lower() and the `in` operator on strings
\* ------------------------------------------------------------------------

UpperLetters ==
  <<"A","B","C","D","E","F","G","H","I","J","K","L","M",
    "N","O","P","Q","R","S","T","U","V","W","X","Y","Z">>

LowerLetters ==
  <<"a","b","c","d","e","f","g","h","i","j","k","l","m",
    "n","o","p","q","r","s","t","u","v","w","x","y","z">>

\* the lower-case letter of each upper-case letter
LowerMap ==
  [c \in {UpperLetters[i] : i \in 1..26} |->
     LowerLetters[CHOOSE i \in 1..26 : UpperLetters[i] = c]]

\* c.lower() for one character
LowerChar(c) == IF c \in DOMAIN LowerMap THEN LowerMap[c] ELSE c

\* text.lower()
Lower(text) == [i \in 1..Len(text) |-> LowerChar(text[i])]

\* needle in text
Contains(text, needle) ==
  \E i \in 0..(Len(text) - Len(needle)) :
      SubSeq(text, i + 1, i + Len(needle)) = needle

KwSummary == <<"s","u","m","m","a","r","y">>
KwDaily == <<"d","a","i","l","y">>

\* state.get("raw_input") or ""
RawOrEmpty(st) == IF st.raw_input = NoneStr THEN <<>> ELSE st.raw_input

\* ------------------------------------------------------------------------
\* Shared state (AgentState) and the run ledger (workflow_runs)
\* ------------------------------------------------------------------------

\* an AgentState with no key set; an absent log reads as [] (setdefault)
EmptyState ==
  [raw_input |-> NoneStr, task |-> None, run_id |-> NoRun,
   result |-> None, log |-> <<>>]

\* a row of workflow_runs
WorkflowRun(thread_id, task) ==
  [thread_id |-> thread_id, task |-> task, status |-> "running",
   finished |-> FALSE, result |-> None]

\* create_workflow_run(thread_id, task) -> run_id : the id of the new row
NewRunId(ldg) == Len(ldg) + 1

\* create_workflow_run(thread_id, task) : the ledger with the new row
create_workflow_run(ldg, thread_id, task) ==
  Append(ldg, WorkflowRun(thread_id, task))

\* update_workflow_status(run_id, status, result=result)
update_workflow_status(ldg, run_id, status, result) ==
  [ldg EXCEPT ![run_id] =
     [@ EXCEPT !.status = status, !.finished = TRUE, !.result = result]]

\* ------------------------------------------------------------------------
\* Nodes.  A node takes the state, the ledger and the outcomes of the
\* calls it makes to its collaborators; it yields whether it raised, the
\* state it returns, the ledger it leaves and the calls it made.
\* ------------------------------------------------------------------------

Raised(st, ldg, calls) ==
  [raised |-> TRUE, state |-> st, ledger |-> ldg, calls |-> calls,
   out |-> None]

Returned(st, ldg, calls, out) ==
  [raised |-> FALSE, state |-> st, ledger |-> ldg, calls |-> calls,
   out |-> out]

\* entry_node creating a RunRecord only when the state carries no run_id
entry_node_keepRunId(st, ldg, create) ==
  LET log1 == Append(st.log, "entry_node: starting")
      raw == IF RawOrEmpty(st) = <<>> THEN DefaultRawInput ELSE st.raw_input
  IN  IF st.run_id # NoRun
      THEN Returned([st EXCEPT !.log = log1, !.raw_input = raw], ldg, <<>>,
                    None)
      ELSE IF create = "raise"
      THEN Raised(st, ldg,
                  <<"create_workflow_run", "create_workflow_run raised">>)
      ELSE Returned([st EXCEPT !.log = Append(log1,
                         "entry_node: created workflow_run run_id="
                         \o ToString(NewRunId(ldg))),
                       !.run_id = NewRunId(ldg), !.raw_input = raw],
                    create_workflow_run(ldg, None, "unknown"),
                    <<"create_workflow_run">>, None)

\* entry_node leaving an absent or empty raw_input as it is
entry_node_noDefault(st, ldg, create) ==
  LET log1 == Append(st.log, "entry_node: starting")
      run_id == NewRunId(ldg)
      log2 == Append(log1,
                "entry_node: created workflow_run run_id=" \o ToString(run_id))
  IN  IF create = "raise"
      THEN Raised(st, ldg,
                  <<"create_workflow_run", "create_workflow_run raised">>)
      ELSE Returned([st EXCEPT !.log = log2, !.run_id = run_id],
                    create_workflow_run(ldg, None, "unknown"),
                    <<"create_workflow_run">>, None)

\* entry_node starting from a fresh log (state["log"] = [])
entry_node_resetLog(st, ldg, create) ==
  LET log1 == <<"entry_node: starting">>
      run_id == NewRunId(ldg)
      log2 == Append(log1,
                "entry_node: created workflow_run run_id=" \o ToString(run_id))
      raw == IF RawOrEmpty(st) = <<>> THEN DefaultRawInput ELSE st.raw_input
  IN  IF create = "raise"
      THEN Raised(st, ldg,
                  <<"create_workflow_run", "create_workflow_run raised">>)
      ELSE Returned([st EXCEPT !.log = log2, !.run_id = run_id,
                               !.raw_input = raw],
                    create_workflow_run(ldg, None, "unknown"),
                    <<"create_workflow_run">>, None)

\* entry_node that also clears result (state["result"] = None)
entry_node_clearsResult(st, ldg, create) ==
  LET log1 == Append(st.log, "entry_node: starting")
      run_id == NewRunId(ldg)
      log2 == Append(log1,
                "entry_node: created workflow_run run_id=" \o ToString(run_id))
      raw == IF RawOrEmpty(st) = <<>> THEN DefaultRawInput ELSE st.raw_input
  IN  IF create = "raise"
      THEN Raised(st, ldg,
                  <<"create_workflow_run", "create_workflow_run raised">>)
      ELSE Returned([st EXCEPT !.log = log2, !.run_id = run_id,
                               !.raw_input = raw, !.result = None],
                    create_workflow_run(ldg, None, "unknown"),
                    <<"create_workflow_run">>, None)

entry_node(st, ldg, create) ==
  LET log1 == Append(st.log, "entry_node: starting")
      run_id == NewRunId(ldg)
      log2 == Append(log1,
                "entry_node: created workflow_run run_id=" \o ToString(run_id))
      raw == IF RawOrEmpty(st) = <<>> THEN DefaultRawInput ELSE st.raw_input
  IN  IF create = "raise"
      THEN Raised(st, ldg,
                  <<"create_workflow_run", "create_workflow_run raised">>)
      ELSE Returned([st EXCEPT !.log = log2, !.run_id = run_id,
                               !.raw_input = raw],
                    create_workflow_run(ldg, None, "unknown"),
                    <<"create_workflow_run">>, None)

\* RouterTask without the .lower() on raw_input
RouterTask_caseSensitive(st) ==
  LET text == RawOrEmpty(st)
  IN  IF Contains(text, KwSummary) \/ Contains(text, KwDaily)
      THEN "daily_summary"
      ELSE "process_inbox"

\* the task that task_router_node picks for a raw_input
RouterTask(st) ==
  LET text == Lower(RawOrEmpty(st))
  IN  IF Contains(text, KwSummary) \/ Contains(text, KwDaily)
      THEN "daily_summary"
      ELSE "process_inbox"

\* task_router_node that stores the lower-cased text back in raw_input
task_router_node_lowersInput(st, ldg) ==
  LET task == RouterTask(st)
  IN  Returned([st EXCEPT !.task = task,
                          !.raw_input = Lower(RawOrEmpty(st)),
                          !.log = Append(@, "task_router_node: task set to '"
                                            \o task \o "'")],
               ldg, <<>>, None)

\* task_router_node that sets the task without logging it
task_router_node_noLog(st, ldg) ==
  Returned([st EXCEPT !.task = RouterTask(st)], ldg, <<>>, None)

task_router_node(st, ldg) ==
  LET task == RouterTask(st)
  IN  Returned([st EXCEPT !.task = task,
                          !.log = Append(@, "task_router_node: task set to '"
                                            \o task \o "'")],
               ldg, <<>>, None)

\* process_inbox_node marking the newest RunRecord instead of its own
process_inbox_node_updateLatest(st, ldg, agent, update) ==
  LET log1 == Append(st.log, "process_inbox_node: invoking gmail_agent")
      call == "gmail_agent.invoke Task: process_inbox"
      log2 == Append(log1, "process_inbox_node: gmail_agent finished")
      st2 == [st EXCEPT !.result = agent, !.log = log2]
      run_id == Len(ldg)
  IN  IF agent = "raise"
      THEN Raised(st, ldg, <<call, "gmail_agent.invoke raised">>)
      ELSE IF run_id = NoRun
      THEN Returned(st2, ldg, <<call>>, agent)
      ELSE IF update = "raise"
      THEN Returned(
             [st2 EXCEPT !.log = Append(@,
                "process_inbox_node: failed to update workflow status: "
                \o LedgerError)],
             ldg,
             <<call, "update_workflow_status completed",
               "update_workflow_status raised">>, agent)
      ELSE Returned(
             [st2 EXCEPT !.log = Append(@,
                "process_inbox_node: workflow_run " \o ToString(run_id)
                \o " marked as completed")],
             update_workflow_status(ldg, run_id, "completed", agent),
             <<call, "update_workflow_status completed">>, agent)

\* process_inbox_node calling update_workflow_status without result=
process_inbox_node_noResultSnapshot(st, ldg, agent, update) ==
  LET log1 == Append(st.log, "process_inbox_node: invoking gmail_agent")
      call == "gmail_agent.invoke Task: process_inbox"
      log2 == Append(log1, "process_inbox_node: gmail_agent finished")
      st2 == [st EXCEPT !.result = agent, !.log = log2]
      run_id == st.run_id
  IN  IF agent = "raise"
      THEN Raised(st, ldg, <<call, "gmail_agent.invoke raised">>)
      ELSE IF run_id = NoRun
      THEN Returned(st2, ldg, <<call>>, agent)
      ELSE IF update = "raise"
      THEN Returned(
             [st2 EXCEPT !.log = Append(@,
                "process_inbox_node: failed to update workflow status: "
                \o LedgerError)],
             ldg,
             <<call, "update_workflow_status completed",
               "update_workflow_status raised">>, agent)
      ELSE Returned(
             [st2 EXCEPT !.log = Append(@,
                "process_inbox_node: workflow_run " \o ToString(run_id)
                \o " marked as completed")],
             update_workflow_status(ldg, run_id, "completed", None),
             <<call, "update_workflow_status completed">>, agent)

\* process_inbox_node marking the run failed before re-raising an
\* executor fault
process_inbox_node_marksFailed(st, ldg, agent, update) ==
  LET log1 == Append(st.log, "process_inbox_node: invoking gmail_agent")
      call == "gmail_agent.invoke Task: process_inbox"
      log2 == Append(log1, "process_inbox_node: gmail_agent finished")
      st2 == [st EXCEPT !.result = agent, !.log = log2]
      run_id == st.run_id
  IN  IF agent = "raise"
      THEN Raised(st,
                  IF run_id = NoRun THEN ldg
                  ELSE update_workflow_status(ldg, run_id, "failed", None),
                  <<call, "gmail_agent.invoke raised",
                    "update_workflow_status failed">>)
      ELSE IF run_id = NoRun
      THEN Returned(st2, ldg, <<call>>, agent)
      ELSE IF update = "raise"
      THEN Returned(
             [st2 EXCEPT !.log = Append(@,
                "process_inbox_node: failed to update workflow status: "
                \o LedgerError)],
             ldg,
             <<call, "update_workflow_status completed",
               "update_workflow_status raised">>, agent)
      ELSE Returned(
             [st2 EXCEPT !.log = Append(@,
                "process_inbox_node: workflow_run " \o ToString(run_id)
                \o " marked as completed")],
             update_workflow_status(ldg, run_id, "completed", agent),
             <<call, "update_workflow_status completed">>, agent)

\* process_inbox_node appending "marked as completed" before it calls
\* update_workflow_status
process_inbox_node_logsBeforeUpdate(st, ldg, agent, update) ==
  LET log1 == Append(st.log, "process_inbox_node: invoking gmail_agent")
      call == "gmail_agent.invoke Task: process_inbox"
      log2 == Append(log1, "process_inbox_node: gmail_agent finished")
      st2 == [st EXCEPT !.result = agent, !.log = log2]
      run_id == st.run_id
      log3 == Append(log2, "process_inbox_node: workflow_run "
                           \o ToString(run_id) \o " marked as completed")
  IN  IF agent = "raise"
      THEN Raised(st, ldg, <<call, "gmail_agent.invoke raised">>)
      ELSE IF run_id = NoRun
      THEN Returned(st2, ldg, <<call>>, agent)
      ELSE IF update = "raise"
      THEN Returned(
             [st2 EXCEPT !.log = Append(log3,
                "process_inbox_node: failed to update workflow status: "
                \o LedgerError)],
             ldg,
             <<call, "update_workflow_status completed",
               "update_workflow_status raised">>, agent)
      ELSE Returned(
             [st2 EXCEPT !.log = log3],
             update_workflow_status(ldg, run_id, "completed", agent),
             <<call, "update_workflow_status completed">>, agent)

\* process_inbox_node with the ledger update left out
process_inbox_node_noUpdate(st, ldg, agent, update) ==
  LET log1 == Append(st.log, "process_inbox_node: invoking gmail_agent")
      call == "gmail_agent.invoke Task: process_inbox"
      log2 == Append(log1, "process_inbox_node: gmail_agent finished")
      st2 == [st EXCEPT !.result = agent, !.log = log2]
  IN  IF agent = "raise"
      THEN Raised(st, ldg, <<call, "gmail_agent.invoke raised">>)
      ELSE Returned(st2, ldg, <<call>>, agent)

\* process_inbox_node with no try/except around update_workflow_status
process_inbox_node_updateUncaught(st, ldg, agent, update) ==
  LET log1 == Append(st.log, "process_inbox_node: invoking gmail_agent")
      call == "gmail_agent.invoke Task: process_inbox"
      log2 == Append(log1, "process_inbox_node: gmail_agent finished")
      st2 == [st EXCEPT !.result = agent, !.log = log2]
      run_id == st.run_id
  IN  IF agent = "raise"
      THEN Raised(st, ldg, <<call, "gmail_agent.invoke raised">>)
      ELSE IF run_id = NoRun
      THEN Returned(st2, ldg, <<call>>, agent)
      ELSE IF update = "raise"
      THEN Raised(st, ldg,
             <<call, "update_workflow_status completed",
               "update_workflow_status raised">>)
      ELSE Returned(
             [st2 EXCEPT !.log = Append(@,
                "process_inbox_node: workflow_run " \o ToString(run_id)
                \o " marked as completed")],
             update_workflow_status(ldg, run_id, "completed", agent),
             <<call, "update_workflow_status completed">>, agent)

process_inbox_node(st, ldg, agent, update) ==
  LET log1 == Append(st.log, "process_inbox_node: invoking gmail_agent")
      call == "gmail_agent.invoke Task: process_inbox"
      log2 == Append(log1, "process_inbox_node: gmail_agent finished")
      st2 == [st EXCEPT !.result = agent, !.log = log2]
      run_id == st.run_id
  IN  IF agent = "raise"
      THEN Raised(st, ldg, <<call, "gmail_agent.invoke raised">>)
      ELSE IF run_id = NoRun
      THEN Returned(st2, ldg, <<call>>, agent)
      ELSE IF update = "raise"
      THEN Returned(
             [st2 EXCEPT !.log = Append(@,
                "process_inbox_node: failed to update workflow status: "
                \o LedgerError)],
             ldg,
             <<call, "update_workflow_status completed",
               "update_workflow_status raised">>, agent)
      ELSE Returned(
             [st2 EXCEPT !.log = Append(@,
                "process_inbox_node: workflow_run " \o ToString(run_id)
                \o " marked as completed")],
             update_workflow_status(ldg, run_id, "completed", agent),
             <<call, "update_workflow_status completed">>, agent)

daily_summary_node(st, ldg, agent, update) ==
  LET log1 == Append(st.log, "daily_summary_node: invoking gmail_agent")
      call == "gmail_agent.invoke Task: daily_summary"
      log2 == Append(log1, "daily_summary_node: gmail_agent finished")
      st2 == [st EXCEPT !.result = agent, !.log = log2]
      run_id == st.run_id
  IN  IF agent = "raise"
      THEN Raised(st, ldg, <<call, "gmail_agent.invoke raised">>)
      ELSE IF run_id = NoRun
      THEN Returned(st2, ldg, <<call>>, agent)
      ELSE IF update = "raise"
      THEN Returned(
             [st2 EXCEPT !.log = Append(@,
                "daily_summary_node: failed to update workflow status: "
                \o LedgerError)],
             ldg,
             <<call, "update_workflow_status completed",
               "update_workflow_status raised">>, agent)
      ELSE Returned(
             [st2 EXCEPT !.log = Append(@,
                "daily_summary_node: workflow_run " \o ToString(run_id)
                \o " marked as completed")],
             update_workflow_status(ldg, run_id, "completed", agent),
             <<call, "update_workflow_status completed">>, agent)

\* ------------------------------------------------------------------------
\* The graph of build_app
\* ------------------------------------------------------------------------

END == "END"

Nodes == {"entry", "task_router", "process_inbox", "daily_summary"}

EntryPoint == "entry"

\* route_by_task returning the task itself once one is set
route_by_task_passThrough(st) ==
  IF st.task = None THEN "process_inbox" ELSE st.task

\* route_by_task with the default branch and the tested branch swapped
route_by_task_defaultDaily(st) ==
  IF st.task = "process_inbox" THEN "process_inbox" ELSE "daily_summary"

route_by_task(st) ==
  IF st.task = "daily_summary" THEN "daily_summary" ELSE "process_inbox"

\* the mapping with the two targets crossed
ConditionalEdges_crossed ==
  [process_inbox |-> "daily_summary", daily_summary |-> "process_inbox"]

\* the mapping handed to add_conditional_edges
ConditionalEdges ==
  [process_inbox |-> "process_inbox", daily_summary |-> "daily_summary"]

\* NextNode with the edge out of entry drawn straight to a branch node
NextNode_entryToBranch(node, st) ==
  CASE node = "entry" -> ConditionalEdges[route_by_task(st)]
    [] node = "task_router" -> ConditionalEdges[route_by_task(st)]
    [] node = "process_inbox" -> END
    [] node = "daily_summary" -> END

\* the node the graph schedules after `node` has returned state st
NextNode(node, st) ==
  CASE node = "entry" -> "task_router"
    [] node = "task_router" -> ConditionalEdges[route_by_task(st)]
    [] node = "process_inbox" -> END
    [] node = "daily_summary" -> END

\* ------------------------------------------------------------------------
\* State of the running program
\* ------------------------------------------------------------------------

VARIABLES
  pc,          \* pc[k]: the node thread k is at, or idle / END / faulted
  phase,       \* phase[k]: "run" before the node, "save" after it returned
  state,       \* state[k]: the AgentState of the invocation on thread k
  checkpoint,  \* checkpoint[k]: what the checkpointer holds for thread k
  ledger,      \* the rows of workflow_runs, indexed by run_id
  invokes,     \* number of app.invoke calls made so far
  calls,       \* calls[k]: nodes run and calls made in this invocation
  agentOut,    \* agentOut[k]: what gmail_agent.invoke returned in it
  input,       \* input[k]: the raw_input this invocation was handed
  faulty       \* whether the collaborators may raise in this behaviour

vars ==
  <<pc, phase, state, checkpoint, ledger, invokes, calls, agentOut, input,
    faulty>>

\* no checkpoint stored under a thread id
NoCheckpoint == [state |-> EmptyState, next |-> None]

\* outcomes of a call to a collaborator
Outcomes == IF faulty THEN {"ok", "raise"} ELSE {"ok"}

AgentOutcomes == IF faulty THEN AgentResults \cup {"raise"} ELSE AgentResults

InitWith(f) ==
  /\ pc = [k \in Keys |-> "idle"]
  /\ phase = [k \in Keys |-> "run"]
  /\ state = [k \in Keys |-> EmptyState]
  /\ checkpoint = [k \in Keys |-> NoCheckpoint]
  /\ ledger = <<>>
  /\ invokes = 0
  /\ calls = [k \in Keys |-> <<>>]
  /\ agentOut = [k \in Keys |-> None]
  /\ input = [k \in Keys |-> NoneStr]
  /\ faulty = f

Init == InitWith(TRUE)

\* ------------------------------------------------------------------------
\* Steps of the compiled app
\* ------------------------------------------------------------------------

\* the state an invocation with input {"raw_input": raw} starts from: the
\* values checkpointed under the thread id, overwritten by the input
InputState(ckpt, raw) == [ckpt.state EXCEPT !.raw_input = raw]

\* app.invoke({"raw_input": raw}, config={"configurable": {"thread_id": k}})
Invoke(k, raw) ==
  /\ pc[k] \in {"idle", END, "faulted"}
  /\ invokes < MaxInvokes
  /\ invokes' = invokes + 1
  /\ state' = [state EXCEPT ![k] = InputState(checkpoint[k], raw)]
  /\ pc' = [pc EXCEPT ![k] = EntryPoint]
  /\ phase' = [phase EXCEPT ![k] = "run"]
  /\ calls' = [calls EXCEPT ![k] = <<>>]
  /\ agentOut' = [agentOut EXCEPT ![k] = None]
  /\ input' = [input EXCEPT ![k] = raw]
  /\ UNCHANGED <<checkpoint, ledger, faulty>>

\* NodeDone with a node that raised left scheduled, to be run again
NodeDone_retry(k, r) ==
  /\ calls' = [calls EXCEPT ![k] = (@ \o <<pc[k]>>) \o r.calls]
  /\ ledger' = r.ledger
  /\ IF r.raised
     THEN UNCHANGED <<pc, phase, state, agentOut>>
     ELSE /\ phase' = [phase EXCEPT ![k] = "save"]
          /\ state' = [state EXCEPT ![k] = r.state]
          /\ agentOut' = [agentOut EXCEPT ![k] =
                            IF r.out = None THEN @ ELSE r.out]
          /\ UNCHANGED pc
  /\ UNCHANGED <<checkpoint, invokes, input, faulty>>

\* the engine has run node pc[k] with outcome r: a node that returns leaves
\* its state to be checkpointed, a node that raises ends the invocation
NodeDone(k, r) ==
  /\ calls' = [calls EXCEPT ![k] = (@ \o <<pc[k]>>) \o r.calls]
  /\ ledger' = r.ledger
  /\ IF r.raised
     THEN /\ pc' = [pc EXCEPT ![k] = "faulted"]
          /\ UNCHANGED <<phase, state, agentOut>>
     ELSE /\ phase' = [phase EXCEPT ![k] = "save"]
          /\ state' = [state EXCEPT ![k] = r.state]
          /\ agentOut' = [agentOut EXCEPT ![k] =
                            IF r.out = None THEN @ ELSE r.out]
          /\ UNCHANGED pc
  /\ UNCHANGED <<checkpoint, invokes, input, faulty>>

EntryStep(k) ==
  /\ pc[k] = "entry" /\ phase[k] = "run"
  /\ \E create \in Outcomes :
        \E r \in {entry_node(state[k], ledger, create)} : NodeDone(k, r)

TaskRouterStep(k) ==
  /\ pc[k] = "task_router" /\ phase[k] = "run"
  /\ \E r \in {task_router_node(state[k], ledger)} : NodeDone(k, r)

ProcessInboxStep(k) ==
  /\ pc[k] = "process_inbox" /\ phase[k] = "run"
  /\ \E agent \in AgentOutcomes, update \in Outcomes :
        \E r \in {process_inbox_node(state[k], ledger, agent, update)} :
           NodeDone(k, r)

DailySummaryStep(k) ==
  /\ pc[k] = "daily_summary" /\ phase[k] = "run"
  /\ \E agent \in AgentOutcomes, update \in Outcomes :
        \E r \in {daily_summary_node(state[k], ledger, agent, update)} :
           NodeDone(k, r)

\* after a node the engine saves the state under the thread id and moves
\* to the node the graph schedules next; a save that raises ends the
\* invocation and leaves the stored checkpoint as it was
SaveStep(k) ==
  /\ pc[k] \in Nodes /\ phase[k] = "save"
  /\ \E save \in Outcomes :
        IF save = "raise"
        THEN /\ pc' = [pc EXCEPT ![k] = "faulted"]
             /\ calls' = [calls EXCEPT ![k] = @ \o <<"save", "save raised">>]
             /\ UNCHANGED checkpoint
        ELSE /\ pc' = [pc EXCEPT ![k] = NextNode(pc[k], state[k])]
             /\ calls' = [calls EXCEPT ![k] = Append(@, "save")]
             /\ checkpoint' = [checkpoint EXCEPT ![k] =
                  [state |-> state[k], next |-> NextNode(pc[k], state[k])]]
  /\ phase' = [phase EXCEPT ![k] = "run"]
  /\ UNCHANGED <<state, ledger, invokes, agentOut, input, faulty>>

Next ==
  \E k \in Keys :
     \/ \E raw \in RawInputs : Invoke(k, raw)
     \/ EntryStep(k)
     \/ TaskRouterStep(k)
     \/ ProcessInboxStep(k)
     \/ DailySummaryStep(k)
     \/ SaveStep(k)

Spec == Init /\ [][Next]_vars

\* ------------------------------------------------------------------------
\* Properties
\* ------------------------------------------------------------------------

Has(seq, e) == \E i \in 1..Len(seq) : seq[i] = e

Count(seq, e) == Cardinality({i \in 1..Len(seq) : seq[i] = e})

IsNode(e) == e \in Nodes

\* the nodes executed so far in the invocation on thread k, in order
NodeTrace(k) == SelectSeq(calls[k], IsNode)

IsPrefix(s, t) == Len(s) <= Len(t) /\ SubSeq(t, 1, Len(s)) = s

GraphPaths ==
  {<<"entry", "task_router", "process_inbox">>,
   <<"entry", "task_router", "daily_summary">>}

GraphEdges ==
  {<<"entry", "task_router">>,
   <<"task_router", "process_inbox">>, <<"task_router", "daily_summary">>,
   <<"process_inbox", "END">>, <<"daily_summary", "END">>}

\* C1: a run executes nodes only along entry -> task_router ->
\* process_inbox | daily_summary -> END: the nodes executed so far are a
\* prefix of one of the two paths, a run at END has executed entry, then
\* task_router, then exactly one branch node, each once, nothing executes
\* in a run that is at END (only a new invocation leaves END), and a run
\* leaves a node only along an edge of the graph or by a fault.
C1_RunFollowsGraphEdges ==
  /\ [](\A k \in Keys :
          /\ \E p \in GraphPaths : IsPrefix(NodeTrace(k), p)
          /\ pc[k] = END => NodeTrace(k) \in GraphPaths)
  /\ [][\A k \in Keys :
          /\ pc[k] = END /\ calls'[k] # calls[k]
               => invokes' = invokes + 1 /\ calls'[k] = <<>>
          /\ pc'[k] # pc[k] /\ pc[k] \in Nodes
               => pc'[k] = "faulted" \/ <<pc[k], pc'[k]>> \in GraphEdges]_vars

\* a run that went through daily_summary is at END
C1_Witness ==
  \E k \in Keys :
     pc[k] = END
     /\ NodeTrace(k) = <<"entry", "task_router", "daily_summary">>

\* ------------------------------------------------------------------------
\* The router on many inputs: one invocation on thread t1, on top of what
\* an earlier run left under the thread id (nothing, or a completed run),
\* taken as far as the routing decision.
\* ------------------------------------------------------------------------

RouterPrefixes == {<<>>, <<"x">>, <<"M","y"," ">>}

RouterCores ==
  {<<>>,
   <<"d","a","i","l","y">>, <<"D","A","I","L","Y">>,
   <<"D","a","i","l","y">>, <<"d","A","i","L","y">>,
   <<"d","a","i","l">>, <<"d","a","i"," ","l","y">>, <<"a","i","l","y">>,
   <<"s","u","m","m","a","r","y">>, UpperSummary,
   <<"S","u","m","m","a","r","y">>, <<"s","u","M","m","a","R","y">>,
   <<"s","u","m","m","a","r">>, <<"s","u","m","a","r","y">>,
   <<"u","m","m","a","r","y">>, <<"s","u","m","m","a","r","i","e","s">>,
   <<"i","n","b","o","x">>}

RouterSuffixes == {<<>>, <<"!">>, <<" ","d","a","y">>}

RouterInputs ==
  {NoneStr} \cup
  {(p \o c) \o x : p \in RouterPrefixes, c \in RouterCores,
                   x \in RouterSuffixes}

\* the checkpoint and ledger left by a fault-free run on raw with agent
\* output out
CompletedRun(raw, out) ==
  LET e == entry_node(InputState(NoCheckpoint, raw), <<>>, "ok")
      t == task_router_node(e.state, e.ledger)
      n == NextNode("task_router", t.state)
      b == IF n = "daily_summary"
           THEN daily_summary_node(t.state, t.ledger, out, "ok")
           ELSE process_inbox_node(t.state, t.ledger, out, "ok")
  IN  [checkpoint |-> [state |-> b.state, next |-> NextNode(n, b.state)],
       ledger |-> b.ledger]

EarlierRuns ==
  {[checkpoint |-> NoCheckpoint, ledger |-> <<>>],
   CompletedRun(ProcessMyInbox, "r1"),
   CompletedRun(GiveMeADailySummary, "r2")}

InitRouter ==
  \E prior \in EarlierRuns, raw \in RouterInputs :
     /\ pc = [k \in Keys |-> IF k = "t1" THEN EntryPoint ELSE "idle"]
     /\ phase = [k \in Keys |-> "run"]
     /\ state = [k \in Keys |-> IF k = "t1"
                                THEN InputState(prior.checkpoint, raw)
                                ELSE EmptyState]
     /\ checkpoint = [k \in Keys |-> IF k = "t1" THEN prior.checkpoint
                                     ELSE NoCheckpoint]
     /\ ledger = prior.ledger
     /\ invokes = 1
     /\ calls = [k \in Keys |-> <<>>]
     /\ agentOut = [k \in Keys |-> None]
     /\ input = [k \in Keys |-> IF k = "t1" THEN raw ELSE NoneStr]
     /\ faulty = FALSE

NextRouter ==
  \E k \in Keys :
     \/ EntryStep(k)
     \/ TaskRouterStep(k)
     \/ SaveStep(k)

SpecRouter == InitRouter /\ [][NextRouter]_vars

\* c is letter d in either letter case (d a lower-case letter or any
\* other character)
SameLetter(c, d) ==
  c = d \/ \E n \in 1..26 : UpperLetters[n] = c /\ LowerLetters[n] = d

\* keyword kw stands in raw at position i, letter case ignored
KeywordAt(raw, kw, i) ==
  /\ i + Len(kw) - 1 <= Len(raw)
  /\ \A j \in 1..Len(kw) : SameLetter(raw[i + j - 1], kw[j])

MentionsKeyword(raw) ==
  \E kw \in {KwSummary, KwDaily} :
     \E i \in 1..Len(raw) : KeywordAt(raw, kw, i)

\* task_router_node has returned in the invocation on thread k
RouterReturned(k) ==
  Has(calls[k], "task_router")
  /\ (pc[k] = "task_router" => phase[k] = "save")

\* C2: once task_router_node has returned, task is daily_summary exactly
\* when raw_input holds "summary" or "daily" at some position in some
\* letter case, and process_inbox otherwise, whatever run_id, result, log
\* and the earlier task of the state are.
C2_RouterClassifiesByKeyword ==
  \A k \in Keys :
     RouterReturned(k) =>
        state[k].task = IF MentionsKeyword(state[k].raw_input)
                        THEN "daily_summary"
                        ELSE "process_inbox"

\* the router chose daily_summary for a keyword written in capitals, over
\* a state whose earlier task was process_inbox
C2_Witness ==
  \E k \in Keys :
     /\ RouterReturned(k)
     /\ state[k].task = "daily_summary"
     /\ ~ Contains(state[k].raw_input, KwDaily)
     /\ ~ Contains(state[k].raw_input, KwSummary)
     /\ checkpoint[k].state.task = "process_inbox"

\* the RunRecords of ldg that are also in ldg2 changed status only from
\* running to a terminal value
StatusOnlyForward(ldg, ldg2) ==
  /\ Len(ldg2) >= Len(ldg)
  /\ \A r \in 1..Len(ldg) :
        ldg2[r].status # ldg[r].status =>
           /\ ldg[r].status = "running"
           /\ ldg2[r].status \in {"completed", "failed"}

\* C3: a run that reached END made exactly one create_workflow_run call
\* and exactly one update_workflow_status call with a terminal status, and
\* no step changes the status of a RunRecord except from running to
\* completed or failed.
C3_RunRecordLifecycle ==
  /\ [](\A k \in Keys :
          pc[k] = END =>
             /\ Count(calls[k], "create_workflow_run") = 1
             /\ Count(calls[k], "update_workflow_status completed") = 1)
  /\ [][StatusOnlyForward(ledger, ledger')]_vars

\* a completed run whose RunRecord went from running to completed
C3_Witness ==
  \E k \in Keys :
     /\ pc[k] = END
     /\ NodeTrace(k)[3] = "process_inbox"
     /\ state[k].run_id \in 1..Len(ledger)
     /\ ledger[state[k].run_id].status = "completed"

\* the state of the invocation on thread k has log entries beyond those
\* of the last checkpoint
LogGrewSinceCheckpoint(k) ==
  Len(state[k].log) > Len(checkpoint[k].state.log)

\* C4: when gmail_agent.invoke has raised in a branch node, the node has
\* recorded the failure in log and returned, so the invocation has not
\* ended in a fault.
C4_ExecutorFaultAbsorbed ==
  \A k \in Keys :
     Has(calls[k], "gmail_agent.invoke raised") =>
        pc[k] # "faulted" /\ LogGrewSinceCheckpoint(k)

\* entry_node has returned in the invocation on thread k
EntryReturned(k) ==
  /\ Has(calls[k], "entry")
  /\ ~ Has(calls[k], "create_workflow_run raised")
  /\ pc[k] = "entry" => phase[k] = "save"

\* the step runs entry_node on thread k and the node returns
EntryReturns(k) ==
  pc[k] = "entry" /\ phase[k] = "run" /\ phase'[k] = "save"

\* C5 as stated: entry_node creates a RunRecord and assigns its id only
\* when run_id is absent; handed a state that carries a run_id it creates
\* nothing and run_id keeps its value.
C5_EntryCreatesOnlyWhenAbsent ==
  [][\A k \in Keys :
       EntryReturns(k) =>
          IF state[k].run_id = NoRun
          THEN /\ Len(ledger') = Len(ledger) + 1
               /\ state'[k].run_id = Len(ledger')
          ELSE /\ ledger' = ledger
               /\ state'[k].run_id = state[k].run_id]_vars

\* C5 amended: every execution of entry_node that returns creates one
\* RunRecord with status running and assigns its id into state, also when
\* the state handed to it carries the run_id of an earlier run, which is
\* overwritten.
C5_EntryAlwaysCreates ==
  [][\A k \in Keys :
       EntryReturns(k) =>
          /\ Len(ledger') = Len(ledger) + 1
          /\ SubSeq(ledger', 1, Len(ledger)) = ledger
          /\ ledger'[Len(ledger')].status = "running"
          /\ state'[k].run_id = Len(ledger')
          /\ state'[k].run_id # state[k].run_id]_vars

\* entry_node has returned on a thread whose checkpoint carried a run_id,
\* and the state now carries another one
C5_Witness ==
  \E k \in Keys :
     /\ pc[k] = "entry" /\ phase[k] = "save"
     /\ checkpoint[k].state.run_id # NoRun
     /\ state[k].run_id # checkpoint[k].state.run_id
     /\ Len(ledger) = 2

\* the step is an app.invoke on thread k, which holds a checkpoint
InvokedAgain(k) ==
  /\ invokes' = invokes + 1
  /\ pc[k] \in {END, "faulted"} /\ calls'[k] = <<>>
  /\ checkpoint[k].next # None

\* C6: an invocation under a thread id that holds a checkpoint saved
\* after node N continues at the node that follows N; it does not start
\* at entry again.
C6_ResumeAtNextNode ==
  [][\A k \in Keys :
       InvokedAgain(k) => pc'[k] = checkpoint[k].next]_vars

\* the branch node whose ledger update raised on thread k
BranchRun(k) == NodeTrace(k)[Len(NodeTrace(k))]

\* C7: when update_workflow_status has raised in a branch node, the log
\* holds that node's "failed to update workflow status" entry, result is
\* the output gmail_agent.invoke returned, and the node has returned: the
\* run is at END or about to be checkpointed with END as its next node
\* (only a checkpoint save that raises keeps it from END).
C7_LedgerUpdateFaultAbsorbed ==
  \A k \in Keys :
     Has(calls[k], "update_workflow_status raised") =>
        /\ BranchRun(k) \in {"process_inbox", "daily_summary"}
        /\ Has(state[k].log,
               BranchRun(k)
               \o "_node: failed to update workflow status: LedgerError()")
        /\ agentOut[k] \in AgentResults
        /\ state[k].result = agentOut[k]
        /\ \/ pc[k] = END
           \/ /\ pc[k] = BranchRun(k) /\ phase[k] = "save"
              /\ NextNode(pc[k], state[k]) = END
           \/ Has(calls[k], "save raised")

\* a run at END whose ledger update raised in process_inbox_node: the
\* RunRecord is still running
C7_Witness ==
  \E k \in Keys :
     /\ pc[k] = END
     /\ Has(calls[k], "update_workflow_status raised")
     /\ BranchRun(k) = "process_inbox"
     /\ ledger[state[k].run_id].status = "running"

\* C8: when create_workflow_run has raised in entry_node, the node has
\* recorded the failure in log and the run goes on, so the invocation has
\* not ended in a fault.
C8_CreateFaultAbsorbed ==
  \A k \in Keys :
     Has(calls[k], "create_workflow_run raised") =>
        pc[k] # "faulted" /\ Len(state[k].log) > 0

\* the save that follows task_router has raised on thread k
SaveRaisedAfterRouter(k) ==
  /\ Len(calls[k]) >= 3
  /\ SubSeq(calls[k], Len(calls[k]) - 2, Len(calls[k]))
       = <<"task_router", "save", "save raised">>

\* C9: when the checkpoint save that follows task_router has raised, the
\* run goes on to a branch node and the log holds an entry for the fault,
\* so the invocation has not ended in a fault.
C9_CheckpointFaultAbsorbed ==
  \A k \in Keys :
     SaveRaisedAfterRouter(k) =>
        /\ pc[k] \in {"process_inbox", "daily_summary"}
        /\ Has(state[k].log, "task_router_node: task set to '"
                             \o state[k].task \o "'")
        /\ state[k].log[Len(state[k].log)]
             # "task_router_node: task set to '" \o state[k].task \o "'"

\* ------------------------------------------------------------------------
\* Runs whose collaborators do not raise, each run driven to its end
\* ------------------------------------------------------------------------

RunStep(k) ==
  \/ EntryStep(k)
  \/ TaskRouterStep(k)
  \/ ProcessInboxStep(k)
  \/ DailySummaryStep(k)
  \/ SaveStep(k)

SpecReliable ==
  InitWith(FALSE) /\ [][Next]_vars /\ \A k \in Keys : WF_vars(RunStep(k))

\* the invocation on thread k was handed an absent or empty raw_input
EmptyInput(k) == input[k] = NoneStr \/ input[k] = <<>>

\* C10: an invocation handed an absent or empty raw_input has raw_input
\* "Process my inbox." once entry_node has returned, task process_inbox
\* once task_router_node has returned, runs the process_inbox branch, and
\* reaches END.
C10_EmptyInputDefaults ==
  /\ [](\A k \in Keys :
          EmptyInput(k) /\ EntryReturned(k) =>
             /\ state[k].raw_input = DefaultRawInput
             /\ RouterReturned(k) => state[k].task = "process_inbox"
             /\ Len(NodeTrace(k)) = 3 => NodeTrace(k)[3] = "process_inbox")
  /\ \A k \in Keys :
        (pc[k] = "entry" /\ EmptyInput(k)) ~> (pc[k] = END)

\* a run handed an absent raw_input is at END with the default in place
C10_Witness ==
  \E k \in Keys :
     /\ pc[k] = END
     /\ input[k] = NoneStr
     /\ state[k].raw_input = DefaultRawInput
     /\ NodeTrace(k)[3] = "process_inbox"

\* ------------------------------------------------------------------------
\* route_by_task on any AgentState: thread t1 stands at the routing point
\* after task_router with a state whose task is unset, one of the two
\* tasks, or a value outside the enumeration.
\* ------------------------------------------------------------------------

RouteTasks == {None, "process_inbox", "daily_summary", "label_emails", ""}

RouteStates ==
  {[raw_input |-> raw, task |-> t, run_id |-> id, result |-> res,
    log |-> lg] :
     raw \in {NoneStr, DefaultRawInput, GiveMeADailySummary},
     t \in RouteTasks, id \in {NoRun, 1}, res \in {None, "r1"},
     lg \in {<<>>, <<"entry_node: starting">>}}

InitRoute ==
  \E st \in RouteStates :
     /\ pc = [k \in Keys |-> IF k = "t1" THEN "task_router" ELSE "idle"]
     /\ phase = [k \in Keys |-> IF k = "t1" THEN "save" ELSE "run"]
     /\ state = [k \in Keys |-> IF k = "t1" THEN st ELSE EmptyState]
     /\ checkpoint = [k \in Keys |-> NoCheckpoint]
     /\ ledger = <<WorkflowRun(None, "unknown")>>
     /\ invokes = 1
     /\ calls = [k \in Keys |-> IF k = "t1" THEN <<"entry", "task_router">>
                                ELSE <<>>]
     /\ agentOut = [k \in Keys |-> None]
     /\ input = [k \in Keys |-> IF k = "t1" THEN st.raw_input ELSE NoneStr]
     /\ faulty = FALSE

NextRoute == \E k \in Keys : SaveStep(k)

SpecRoute == InitRoute /\ [][NextRoute]_vars

\* the step routes thread k out of task_router
Routes(k) ==
  pc[k] = "task_router" /\ phase[k] = "save" /\ pc'[k] # pc[k]

\* C11: routing out of task_router never fails and goes to daily_summary
\* exactly when task is daily_summary and to process_inbox for every other
\* task, unset and out-of-enumeration values included; the target is the
\* same for states that differ in other fields, and the state is left as
\* it was.
C11_RouteByTaskTotal ==
  [][\A k \in Keys :
       Routes(k) =>
          /\ pc'[k] \in {"process_inbox", "daily_summary"}
          /\ pc'[k] = "daily_summary" <=> state[k].task = "daily_summary"
          /\ state'[k] = state[k]]_vars

\* a state whose task is unset has been routed to process_inbox
C11_Witness ==
  \E k \in Keys :
     /\ pc[k] = "process_inbox" /\ phase[k] = "run"
     /\ state[k].task = None
     /\ calls[k] = <<"entry", "task_router", "save">>

RaisedEvents ==
  {"create_workflow_run raised", "gmail_agent.invoke raised",
   "update_workflow_status raised", "save raised"}

\* no collaborator has raised in the invocation on thread k
NoFault(k) == \A i \in 1..Len(calls[k]) : calls[k][i] \notin RaisedEvents

\* the log entries of a fault-free run through branch b under run id id
RunLog(b, id) ==
  <<"entry_node: starting",
    "entry_node: created workflow_run run_id=" \o ToString(id),
    "task_router_node: task set to '" \o b \o "'",
    b \o "_node: invoking gmail_agent",
    b \o "_node: gmail_agent finished",
    b \o "_node: workflow_run " \o ToString(id) \o " marked as completed">>

\* C12: a run at END in which nothing raised ends its log with the
\* entry_node entries, then the task_router_node entry, then the entries
\* of the branch it ran, its result is what gmail_agent.invoke returned,
\* and the branch is process_inbox for "Process my inbox" and
\* daily_summary for "Give me a daily summary".
C12_FaultFreeRunLogAndResult ==
  \A k \in Keys :
     pc[k] = END /\ NoFault(k) =>
        LET b == BranchRun(k)
            n == Len(state[k].log)
        IN  /\ n >= 6
            /\ SubSeq(state[k].log, n - 5, n) = RunLog(b, state[k].run_id)
            /\ state[k].task = b
            /\ agentOut[k] \in AgentResults
            /\ state[k].result = agentOut[k]
            /\ input[k] = ProcessMyInbox => b = "process_inbox"
            /\ input[k] = GiveMeADailySummary => b = "daily_summary"

\* a fault-free run of "Give me a daily summary" is at END
C12_Witness ==
  \E k \in Keys :
     /\ pc[k] = END /\ NoFault(k)
     /\ input[k] = GiveMeADailySummary
     /\ state[k].log = RunLog("daily_summary", 1)
     /\ state[k].result = "r2"

\* the step is a node or engine step of the invocation on thread k
Stepped(k) == calls'[k] # calls[k] /\ invokes' = invokes

\* C13: with the runs of two thread ids interleaved, the runs hold
\* different run_ids, a step of one run leaves the other run's state and
\* checkpoint and every RunRecord but its own as they were, and a run at
\* END in which nothing raised has its own agent output both in its state
\* and in its RunRecord.
C13_RunsIsolated ==
  /\ [](\A k \in Keys :
          /\ \A k2 \in Keys \ {k} :
                EntryReturned(k) /\ EntryReturned(k2)
                   => state[k].run_id # state[k2].run_id
          /\ pc[k] = END /\ NoFault(k) =>
                /\ state[k].result = agentOut[k]
                /\ ledger[state[k].run_id].result = agentOut[k])
  /\ [][\A k \in Keys :
          Stepped(k) =>
             /\ \A k2 \in Keys \ {k} :
                   /\ state'[k2] = state[k2]
                   /\ checkpoint'[k2] = checkpoint[k2]
                   /\ pc'[k2] = pc[k2]
             /\ \A r \in 1..Len(ledger) :
                   r # state[k].run_id => ledger'[r] = ledger[r]]_vars

\* t2 started after t1 and finished first: its RunRecord is completed
\* with its output while t1, with another output to come, is at its
\* branch node and its RunRecord still running
C13_Witness ==
  /\ pc["t1"] = "process_inbox" /\ phase["t1"] = "run"
  /\ state["t1"].run_id = 1 /\ ledger[1].status = "running"
  /\ pc["t2"] = END /\ state["t2"].run_id = 2
  /\ ledger[2].status = "completed" /\ ledger[2].result = "r2"

\* a node has raised in the invocation on thread k
NodeRaised(k) ==
  \/ Has(calls[k], "create_workflow_run raised")
  \/ Has(calls[k], "gmail_agent.invoke raised")

\* C14: once a node has raised, the invocation has ended in a fault at
\* once: the raise is the last thing that happened in it, the node was
\* executed once, and the checkpoint under the thread id was left as it
\* was, which after a branch node's fault is the one saved after
\* task_router with that branch as the node to run.
C14_NodeFaultNotRetried ==
  /\ [](\A k \in Keys :
          NodeRaised(k) =>
             /\ pc[k] = "faulted"
             /\ calls[k][Len(calls[k])] \in RaisedEvents
             /\ Count(NodeTrace(k), BranchRun(k)) = 1
             /\ Count(calls[k], "gmail_agent.invoke raised")
                  + Count(calls[k], "create_workflow_run raised") = 1
             /\ Len(NodeTrace(k)) = 3 =>
                  /\ checkpoint[k].next = BranchRun(k)
                  /\ checkpoint[k].state.task = BranchRun(k)
                  /\ checkpoint[k].state.log[Len(checkpoint[k].state.log)]
                       = "task_router_node: task set to '"
                         \o BranchRun(k) \o "'")
  /\ [][\A k \in Keys :
          pc[k] \in Nodes /\ phase[k] = "run" /\ pc'[k] = "faulted"
             => checkpoint'[k] = checkpoint[k]]_vars

\* gmail_agent.invoke has raised in daily_summary_node: the invocation
\* has ended and the checkpoint names daily_summary as the node to run
C14_Witness ==
  \E k \in Keys :
     /\ pc[k] = "faulted"
     /\ Has(calls[k], "gmail_agent.invoke raised")
     /\ checkpoint[k].next = "daily_summary"
     /\ checkpoint[k].state.result = None

\* C15: every step of a run leaves the log it found as a prefix of the
\* log it leaves, the entries carried over from before the run included:
\* entries are only ever appended.
C15_LogAppendOnly ==
  [][\A k \in Keys :
       invokes' = invokes => IsPrefix(state[k].log, state'[k].log)]_vars

\* entry_node has returned on a thread whose state came with the six
\* entries of an earlier run: they are still the first six
C15_Witness ==
  \E k \in Keys :
     /\ pc[k] = "entry" /\ phase[k] = "save"
     /\ Len(checkpoint[k].state.log) = 6
     /\ Len(state[k].log) = 8
     /\ SubSeq(state[k].log, 1, 6) = checkpoint[k].state.log

BranchNodes == {"process_inbox", "daily_summary"}

\* C16: a branch node about to execute finds run_id set to the id of an
\* existing RunRecord with status running, created by entry_node in this
\* run (one create call in the run, its id in the entry_node log entry),
\* and held by no other thread.
C16_RunIdSetBeforeBranch ==
  \A k \in Keys :
     pc[k] \in BranchNodes /\ phase[k] = "run" =>
        /\ state[k].run_id # NoRun
        /\ state[k].run_id \in 1..Len(ledger)
        /\ ledger[state[k].run_id].status = "running"
        /\ Count(calls[k], "create_workflow_run") = 1
        /\ state[k].log[Len(state[k].log) - 1]
             = "entry_node: created workflow_run run_id="
               \o ToString(state[k].run_id)
        /\ \A k2 \in Keys \ {k} : state[k2].run_id # state[k].run_id

\* the second run on a thread is about to execute its branch node under
\* RunRecord 2, RunRecord 1 being completed
C16_Witness ==
  \E k \in Keys :
     /\ pc[k] \in BranchNodes /\ phase[k] = "run"
     /\ state[k].run_id = 2
     /\ ledger[1].status = "completed"
     /\ Len(state[k].log) = 9

\* the step runs task_router_node on thread k and the node returns
RouterReturns(k) ==
  pc[k] = "task_router" /\ phase[k] = "run" /\ phase'[k] = "save"

\* the step runs a branch node on thread k and the node returns
BranchReturns(k) ==
  pc[k] \in BranchNodes /\ phase[k] = "run" /\ phase'[k] = "save"

\* C17: task_router_node leaves raw_input, run_id and result as they
\* were, a branch node leaves raw_input, task and run_id as they were,
\* no step of a run but entry_node changes raw_input, no step but
\* task_router_node changes task, and a run at END has executed
\* task_router_node once.
C17_FieldOwnership ==
  /\ [][\A k \in Keys :
          invokes' = invokes =>
             /\ RouterReturns(k) =>
                   /\ state'[k].raw_input = state[k].raw_input
                   /\ state'[k].run_id = state[k].run_id
                   /\ state'[k].result = state[k].result
             /\ BranchReturns(k) =>
                   /\ state'[k].raw_input = state[k].raw_input
                   /\ state'[k].task = state[k].task
                   /\ state'[k].run_id = state[k].run_id
             /\ state'[k].raw_input # state[k].raw_input => EntryReturns(k)
             /\ state'[k].task # state[k].task => RouterReturns(k)]_vars
  /\ [](\A k \in Keys :
          pc[k] = END => Count(NodeTrace(k), "task_router") = 1)

\* task_router_node has changed the task of a state that carries the
\* result of an earlier run and a mixed-case raw_input
C17_Witness ==
  \E k \in Keys :
     /\ pc[k] = "task_router" /\ phase[k] = "save"
     /\ state[k].task = "daily_summary"
     /\ checkpoint[k].state.task = "process_inbox"
     /\ state[k].result = "r1"
     /\ state[k].raw_input = GiveMeADailySummary

\* the number of gmail_agent.invoke calls in the invocation on thread k
AgentCalls(k) ==
  Count(calls[k], "gmail_agent.invoke Task: process_inbox")
  + Count(calls[k], "gmail_agent.invoke Task: daily_summary")

\* C18: within a run only a returning branch node changes result, a run
\* at END has made one gmail_agent.invoke call and so one assignment to
\* result, and from the branch node's return on result is the value that
\* call returned.
C18_ResultWrittenOnce ==
  /\ [][\A k \in Keys :
          invokes' = invokes /\ state'[k].result # state[k].result
             => BranchReturns(k)]_vars
  /\ [](\A k \in Keys :
          /\ pc[k] = END => AgentCalls(k) = 1
          /\ AgentCalls(k) <= 1
          /\ (pc[k] = END \/ (pc[k] \in BranchNodes /\ phase[k] = "save"))
                => state[k].result = agentOut[k]
                   /\ agentOut[k] \in AgentResults)

\* the second fault-free run on a thread is at END with result r2, the
\* first one having left r1
C18_Witness ==
  \E k \in Keys :
     /\ pc[k] = END /\ NoFault(k)
     /\ Len(state[k].log) = 12
     /\ state[k].run_id = 2
     /\ ledger[1].result = "r1"
     /\ state[k].result = "r2"

\* C19: the RunRecord of a run, once completed, holds the result that the
\* run's state holds; a RunRecord becomes completed only in the step of
\* the branch node whose state names it, with the result that step wrote
\* into the state, and does not change afterwards.
C19_CompletedResultIsSnapshot ==
  /\ [](\A k \in Keys :
          EntryReturned(k)
          /\ ledger[state[k].run_id].status = "completed"
             => ledger[state[k].run_id].result = state[k].result)
  /\ [][\A r \in 1..Len(ledger) :
          /\ ledger[r].status = "completed" => ledger'[r] = ledger[r]
          /\ ledger[r].status # "completed"
             /\ ledger'[r].status = "completed" =>
                \E k \in Keys :
                   /\ BranchReturns(k)
                   /\ state[k].run_id = r
                   /\ state'[k].result \in AgentResults
                   /\ ledger'[r].result = state'[k].result]_vars

\* a run through process_inbox is at END; its RunRecord is completed
\* with the result in its state
C19_Witness ==
  \E k \in Keys :
     /\ pc[k] = END
     /\ BranchRun(k) = "process_inbox"
     /\ ledger[state[k].run_id].status = "completed"
     /\ ledger[state[k].run_id].result = "r1"
     /\ state[k].result = "r1"

\* C20: the RunRecord of a run at END holds the task that the run's
\* final state holds.
C20_RunRecordTaskMirrorsState ==
  \A k \in Keys :
     pc[k] = END => ledger[state[k].run_id].task = state[k].task

\* the nodes the graph can schedule after node n, over every state the
\* node can return
Successors(n) == {NextNode(n, st) : st \in RouteStates}

\* the nodes and markers reachable from n along the graph's edges
ReachableFrom(n) ==
  LET R[i \in 0..Cardinality(Nodes)] ==
        IF i = 0 THEN {n}
        ELSE R[i-1] \cup UNION {IF m \in Nodes THEN Successors(m) ELSE {} :
                                m \in R[i-1]}
  IN  R[Cardinality(Nodes)]

\* C21: whatever task the state holds, route_by_task returns a key of the
\* mapping of task_router; every target of that mapping and of every edge
\* is a registered node or END; the entry point is one registered node
\* and nothing leads back to it; END is reachable from every registered
\* node; and no thread is ever at anything but a registered node or END.
C21_RoutingStaysInGraph ==
  /\ \A st \in RouteStates : route_by_task(st) \in DOMAIN ConditionalEdges
  /\ \A key \in DOMAIN ConditionalEdges :
        ConditionalEdges[key] \in Nodes \cup {END}
  /\ \A n \in Nodes : Successors(n) \subseteq Nodes \cup {END}
  /\ EntryPoint \in Nodes
  /\ \A n \in Nodes : EntryPoint \notin Successors(n)
  /\ \A n \in Nodes : END \in ReachableFrom(n)
  /\ \A k \in Keys : pc[k] \in Nodes \cup {END, "idle", "faulted"}

\* a state whose task names no branch has been routed, to process_inbox
C21_Witness ==
  \E k \in Keys :
     /\ pc[k] = "process_inbox" /\ phase[k] = "run"
     /\ state[k].task = "label_emails"
     /\ calls[k] = <<"entry", "task_router", "save">>

\* C22: in a run that executed task_router_node, a thread at a branch
\* node holds that node's name as task, and an instruction sent to the
\* executor with the label "Task: b" was sent by a run whose task is b.
C22_BranchMatchesTask ==
  \A k \in Keys :
     Has(calls[k], "task_router") =>
        /\ pc[k] \in BranchNodes => state[k].task = pc[k]
        /\ \A b \in BranchNodes :
              Has(calls[k], "gmail_agent.invoke Task: " \o b) =>
                 /\ state[k].task = b
                 /\ BranchRun(k) = b

\* the second run on a thread has sent the daily_summary instruction,
\* the first run having been routed to process_inbox
C22_Witness ==
  \E k \in Keys :
     /\ pc[k] = "daily_summary" /\ phase[k] = "save"
     /\ Len(state[k].log) >= 9
     /\ state[k].log[3] = "task_router_node: task set to 'process_inbox'"
     /\ Has(calls[k], "gmail_agent.invoke Task: daily_summary")
     /\ state[k].task = "daily_summary"

\* C23: every RunRecord has status running or completed and no call
\* asks for status failed; a run whose executor call raised has made no
\* update call and its RunRecord is as it was created, status running;
\* and the status of a RunRecord changes only to completed, in the step
\* of a returning branch node whose state names the record.
C23_NoFailedStatus ==
  /\ [](\A r \in 1..Len(ledger) :
          ledger[r].status \in {"running", "completed"})
  /\ [](\A k \in Keys :
          /\ ~ Has(calls[k], "update_workflow_status failed")
          /\ Has(calls[k], "gmail_agent.invoke raised") =>
                /\ ~ Has(calls[k], "update_workflow_status completed")
                /\ ledger[state[k].run_id] = WorkflowRun(None, "unknown"))
  /\ [][\A r \in 1..Len(ledger) :
          ledger'[r].status # ledger[r].status =>
             /\ ledger'[r].status = "completed"
             /\ \E k \in Keys : BranchReturns(k) /\ state[k].run_id = r]_vars

\* one thread's run ended with an executor fault and its RunRecord is
\* running, while the other thread's run is at END with a completed one
C23_Witness ==
  \E k \in Keys, k2 \in Keys :
     /\ pc[k] = "faulted"
     /\ Has(calls[k], "gmail_agent.invoke raised")
     /\ ledger[state[k].run_id].status = "running"
     /\ pc[k2] = END
     /\ ledger[state[k2].run_id].status = "completed"

\* the entries the step appends to the log of thread k
LogAdded(k) ==
  SubSeq(state'[k].log, Len(state[k].log) + 1, Len(state'[k].log))

CompletedEntry(b, id) ==
  b \o "_node: workflow_run " \o ToString(id) \o " marked as completed"

FailedEntry(b) ==
  b \o "_node: failed to update workflow status: " \o LedgerError

\* C24: the entries a returning branch node with run_id set appends hold
\* one "marked as completed" or "failed to update workflow status" entry
\* and not both; it is the first one exactly when update_workflow_status
\* did not raise, which is exactly when the RunRecord is then completed;
\* and "gmail_agent finished" stands before it.
C24_LogTellsLedgerTruth ==
  [][\A k \in Keys :
       BranchReturns(k) /\ state[k].run_id # NoRun =>
          LET add == LogAdded(k)
              done == CompletedEntry(pc[k], state[k].run_id)
              failed == FailedEntry(pc[k])
          IN  /\ Count(add, done) + Count(add, failed) = 1
              /\ Has(add, done)
                   <=> ~ Has(calls'[k], "update_workflow_status raised")
              /\ Has(add, done)
                   <=> ledger'[state[k].run_id].status = "completed"
              /\ \E i \in 1..Len(add), j \in 1..Len(add) :
                    /\ i < j
                    /\ add[i] = pc[k] \o "_node: gmail_agent finished"
                    /\ add[j] \in {done, failed}]_vars

\* daily_summary_node has returned after a raising update: the last log
\* entry says so and the RunRecord is still running
C24_Witness ==
  \E k \in Keys :
     /\ pc[k] = "daily_summary" /\ phase[k] = "save"
     /\ state[k].run_id # NoRun
     /\ state[k].log[Len(state[k].log)] = FailedEntry("daily_summary")
     /\ state[k].log[Len(state[k].log) - 1]
          = "daily_summary_node: gmail_agent finished"
     /\ ledger[state[k].run_id].status = "running"

====
